---- MODULE Spec2Model ----
(***************************************************************************)
(* SecuML core/Classification/Classifier.py: the Classifier orchestration  *)
(* class (training, cross-validation monitoring, testing, validation,      *)
(* alerts) on top of an sklearn pipeline.                                  *)
(***************************************************************************)
EXTENDS Integers, Sequences, FiniteSets, TLC

VARIABLES conf, datasets, pipeline, cv, training_predictions, coefs,
          class_labels, training_monitoring, testing_predictions,
          testing_monitoring, validation_predictions, validation_monitoring,
          alerts, cv_monitoring, dumped,
          top, pc, exc, log, cv_datasets, fold_id,
          probe_in, probe_out

vars == <<conf, datasets, pipeline, cv, training_predictions, coefs,
          class_labels, training_monitoring, testing_predictions,
          testing_monitoring, validation_predictions, validation_monitoring,
          alerts, cv_monitoring, dumped,
          top, pc, exc, log, cv_datasets, fold_id,
          probe_in, probe_out>>

(* ------------------------------ bounds --------------------------------- *)
\* instances of a training set
MaxTrain == 2
\* instances of a test set
MaxTest == 2
\* instances of a validation set
MaxVal == 2
\* instances of each class in a training set that is cross-validated
MaxCvPerClass == 3
\* length of the supervision vectors handed to the probed pure functions
MaxProbeLen == 3
\* largest class / family identifier of the probed supervision vectors
MaxClassId == 2
\* number of features of a dataset
NumFeatures == 2
\* largest conf.num_folds
MaxFolds == 3

(* ------------------------------ values --------------------------------- *)
\* Python's None, and an attribute that was never assigned
None == [tag |-> "None"]
Unset == [tag |-> "unset"]
NoException == "none"
SupervisedLearningAtLeastTwoClasses == "SupervisedLearningAtLeastTwoClasses"

Range(s) == {s[i] : i \in DOMAIN s}
Count(s, c) == Cardinality({i \in DOMAIN s : s[i] = c})
Repeat(v, n) == [i \in 1..n |-> v]

\* an Instances object: ids, annotations and ground truth; both carry labels
\* and families
Instances(ids, labels, families) ==
    [tag |-> "Instances", ids |-> ids,
     annotations |-> [labels |-> labels, families |-> families],
     ground_truth |-> [labels |-> labels, families |-> families]]

numInstances(instances) == Len(instances.ids)

getAnnotations(instances, ground_truth) ==
    IF ground_truth THEN instances.ground_truth ELSE instances.annotations

Annotations_getSupervision(annotations, families_supervision) ==
    IF families_supervision THEN annotations.families ELSE annotations.labels

(* --------------------------- getSupervision ---------------------------- *)
\* result of a call: the exception raised (NoException when it returns) and
\* the returned value
Raise(e) == [exc |-> e, value |-> <<>>]
Return(v) == [exc |-> NoException, value |-> v]

\* the guard compares with 1 instead of 2
getSupervision_lt1(instances, ground_truth, check) ==
    LET annotations == getAnnotations(instances, ground_truth)
        supervision == Annotations_getSupervision(annotations,
                                                  conf.families_supervision)
    IN  IF check /\ Cardinality(Range(supervision)) < 1
        THEN Raise(SupervisedLearningAtLeastTwoClasses)
        ELSE Return(supervision)

\* the guard is never applied
getSupervision_unchecked(instances, ground_truth, check) ==
    LET annotations == getAnnotations(instances, ground_truth)
        supervision == Annotations_getSupervision(annotations,
                                                  conf.families_supervision)
    IN  Return(supervision)

getSupervision(instances, ground_truth, check) ==
    LET annotations == getAnnotations(instances, ground_truth)
        supervision == Annotations_getSupervision(annotations,
                                                  conf.families_supervision)
    IN  IF check /\ Cardinality(Range(supervision)) < 2
        THEN Raise(SupervisedLearningAtLeastTwoClasses)
        ELSE Return(supervision)

(* ------------------- the sklearn pipeline (external) ------------------- *)
\* The fitted state of self.pipeline: what it was last fitted on, with which
\* hyperparameters, and the model class (kind: "linear" models expose coef_,
\* "tree" models feature_importances_, "other" neither).
UnfittedPipeline(kind) ==
    [fitted |-> FALSE, fit_ids |-> <<>>, fit_y |-> <<>>, weighted |-> FALSE,
     params |-> "default", kind |-> kind]

\* pipeline.fit(X, y[, model__sample_weight=w])
pipeline_fit(p, instances, y, sample_weight) ==
    [p EXCEPT !.fitted = TRUE, !.fit_ids = instances.ids, !.fit_y = y,
              !.weighted = sample_weight]

RECURSIVE SortedSeq(_)
SortedSeq(S) ==
    IF S = {} THEN <<>>
    ELSE LET m == CHOOSE x \in S : \A y \in S : x <= y
         IN  <<m>> \o SortedSeq(S \ {m})

\* classes_ of the fitted model
classes_(p) == SortedSeq(Range(p.fit_y))

\* the model stands for a class-prior classifier: every instance gets the
\* class counts of the fitted supervision as its probability row, the most
\* frequent class as its prediction, and that class's support as its score
ProbaRow(p) == [k \in 1..Len(classes_(p)) |-> Count(p.fit_y, classes_(p)[k])]
Majority(p) ==
    CHOOSE c \in Range(p.fit_y) :
        \A d \in Range(p.fit_y) :
            \/ Count(p.fit_y, c) > Count(p.fit_y, d)
            \/ (Count(p.fit_y, c) = Count(p.fit_y, d) /\ c <= d)
pipeline_predict(p, n) == Repeat(Majority(p), n)
pipeline_predict_proba(p, n) == Repeat(ProbaRow(p), n)
pipeline_decision_function(p, n) == Repeat(Count(p.fit_y, Majority(p)), n)
\* named_steps['model'].coef_[0] and .feature_importances_
pipeline_coef_0(p) == Repeat(Len(p.fit_y), NumFeatures)
pipeline_feature_importances_(p) == Repeat(1, NumFeatures)

\* what the external calls of one applyPipeline do: all succeed, or the named
\* one raises
ExtOutcomes == {"ok", "predict_raises", "predict_proba_raises",
                "decision_function_raises"}
ExternalError == "ExternalError"

(* ---------------------------- applyPipeline ---------------------------- *)
List(v) == [tag |-> "list", v |-> v]

Predictions(predictions, all_proba, proba, scores, ids) ==
    [tag |-> "Predictions", predictions |-> predictions,
     all_predicted_proba |-> all_proba,
     predicted_proba |-> proba,
     predicted_scores |-> scores, ids |-> ids,
     ground_truth |-> None]

setGroundTruth(predictions, supervision) ==
    [predictions EXCEPT !.ground_truth = List(supervision)]

\* all_predicted_proba[:, 0]
FirstColumn(m) == [i \in DOMAIN m |-> m[i][1]]

\* all_predicted_proba[:, 1]
SecondColumn(m) == [i \in DOMAIN m |-> m[i][2]]

\* the except branch leaves the scores empty
decision_function_or_nothing(num_instances, ext) ==
    IF ext = "decision_function_raises"
    THEN <<>>
    ELSE pipeline_decision_function(pipeline, num_instances)

\* lines 158-161: the scores of decision_function, or zeros when it raises
decision_function_or_zeros(num_instances, ext) ==
    IF ext = "decision_function_raises"
    THEN [i \in 1..num_instances |-> 0]
    ELSE pipeline_decision_function(pipeline, num_instances)

\* applyPipeline(instances) under the outcome ext of its external calls;
\* calls lists the pipeline methods invoked, in order
applyPipeline(instances, ext) ==
    LET num_instances == numInstances(instances) IN
    IF num_instances = 0
    THEN [exc |-> NoException, calls |-> <<>>,
          value |-> Predictions(<<>>, <<>>, <<>>, <<>>, instances.ids)]
    ELSE IF ext = "predict_raises" \/ ~pipeline.fitted
    THEN [exc |-> ExternalError, calls |-> <<"predict">>, value |-> None]
    ELSE IF ext = "predict_proba_raises"
    THEN [exc |-> ExternalError, calls |-> <<"predict", "predict_proba">>,
          value |-> None]
    ELSE
    LET predictions == pipeline_predict(pipeline, num_instances)
        all_predicted_proba == pipeline_predict_proba(pipeline, num_instances)
        predicted_proba ==
            IF conf.families_supervision
            THEN [i \in 1..num_instances |-> None]
            ELSE SecondColumn(all_predicted_proba)
        predicted_scores == decision_function_or_zeros(num_instances, ext)
    IN  [exc |-> NoException,
         calls |-> <<"predict", "predict_proba", "decision_function">>,
         value |-> Predictions(predictions, all_predicted_proba,
                               predicted_proba, predicted_scores,
                               instances.ids)]

(* ------------------------- configuration, data ------------------------- *)
AlertsConfiguration == [tag |-> "AlertsConfiguration"]
ParamGrid == [tag |-> "param_grid"]
Weights == [tag |-> "sample_weight"]

\* the classifier configuration object held in self.conf
Conf(families_supervision, param_grid, alerts_conf, num_folds, sample_weight, feature_importance) ==
    [families_supervision |-> families_supervision,
     param_grid |-> param_grid,
     test_conf |-> [alerts_conf |-> alerts_conf],
     num_folds |-> num_folds,
     sample_weight |-> sample_weight,
     feature_importance |-> feature_importance,
     best_values |-> None]

\* the datasets argument of the calls
Datasets(train, test, validation, sample_weight) ==
    [train_instances |-> train, test_instances |-> test,
     validation_instances |-> validation, sample_weight |-> sample_weight]

getFeaturesNames(d) == [i \in 1..NumFeatures |-> i]

\* Python truth value of datasets.sample_weight
Truthy(x) == x # None

\* createPipeline of the concrete classifier: the model class goes with the
\* configuration's featureImportance()
createPipeline(c) ==
    UnfittedPipeline(IF c.feature_importance = "weight" THEN "linear"
                     ELSE IF c.feature_importance = "score" THEN "tree"
                     ELSE "other")

\* decision_function exists on linear models only; a call on another model
\* raises
StepOutcomes(p) ==
    {"predict_raises", "predict_proba_raises"}
        \cup (IF p.kind = "linear" THEN {"ok"}
              ELSE {"decision_function_raises"})

Ev(name, arg) == [ev |-> name, arg |-> arg]

(* ---------------------------- initial state ---------------------------- *)
\* supervision vectors: n instances with alternating classes 0, 1, 0, ...
Alternating(n) == [i \in 1..n |-> (i - 1) % 2]
\* n0 instances of class 0 followed by n1 instances of class 1
ByClass(n0, n1) == Repeat(0, n0) \o Repeat(1, n1)
Ids(first, n) == [i \in 1..n |-> first + i - 1]
MkInstances(first, y) == Instances(Ids(first, Len(y)), y, y)

InitClassifier(c) ==
    /\ conf = c
    /\ pipeline = createPipeline(c)
    /\ cv = Unset
    /\ training_predictions = Unset
    /\ coefs = Unset
    /\ class_labels = Unset
    /\ training_monitoring = Unset
    /\ testing_predictions = Unset
    /\ testing_monitoring = Unset
    /\ validation_predictions = Unset
    /\ validation_monitoring = Unset
    /\ alerts = Unset
    /\ cv_monitoring = [tag |-> "bool", value |-> FALSE]
    /\ dumped = Unset
    /\ top = "none"
    /\ pc = "idle"
    /\ exc = NoException
    /\ log = <<>>
    /\ cv_datasets = <<>>
    /\ fold_id = 0

NoProbe ==
    /\ probe_in = Unset
    /\ probe_out = Unset

(* ------------------------------ plumbing ------------------------------- *)
trainingVars == <<training_predictions, coefs, class_labels,
                  training_monitoring>>
testingVars == <<testing_predictions, testing_monitoring>>
validationVars == <<validation_predictions, validation_monitoring>>
cvVars == <<cv_monitoring, cv_datasets, fold_id>>
probeVars == <<probe_in, probe_out>>

\* a top-level call of method op starts at position first
Enter(op, first) ==
    /\ pc = "idle"
    /\ top' = op
    /\ pc' = first
    /\ exc' = NoException
    /\ log' = <<>>
    /\ UNCHANGED <<conf, datasets, pipeline, cv, trainingVars, testingVars,
                   validationVars, alerts, cvVars, dumped, probeVars>>

\* the running call ends with exception e propagating to the caller
Propagate(e, events) ==
    /\ pc' = "idle"
    /\ exc' = e
    /\ log' = log \o events

\* the step returns and the call goes on at position next
Goto(next, events) ==
    /\ pc' = next
    /\ exc' = NoException
    /\ log' = log \o events

CallEvents(calls, n) == [i \in DOMAIN calls |-> Ev(calls[i], n)]

(* ------------------------------ entry points --------------------------- *)
trainTestValidation == Enter("trainTestValidation", "setBestParameters")
training == Enter("training", "setBestParameters")
testValidation == Enter("testValidation", "testing")
testing == Enter("testing", "testing")
validation == Enter("validation", "validation")
generateAlerts == Enter("generateAlerts", "generateAlerts")
crossValidationMonitoring == Enter("crossValidationMonitoring", "cv_generate")

\* where a call goes once training has returned (lines 54-55)
AfterTraining == IF top = "trainTestValidation" THEN "testing" ELSE "idle"
\* where a call goes once testing has returned (lines 58-59)
AfterTesting ==
    IF top \in {"trainTestValidation", "testValidation"}
    THEN "generateAlerts" ELSE "idle"
\* validation is called whatever validation_instances is
AfterGenerateAlerts_unconditional ==
    IF top \in {"trainTestValidation", "testValidation"}
    THEN "validation" ELSE "idle"

\* where a call goes once generateAlerts has returned (lines 60-61)
AfterGenerateAlerts ==
    IF /\ top \in {"trainTestValidation", "testValidation"}
       /\ datasets.validation_instances # None
    THEN "validation" ELSE "idle"

(* ------------------------------- training ------------------------------ *)
StratifiedKFold(n_splits) == [tag |-> "StratifiedKFold", n_splits |-> n_splits]

\* what setBestValues keeps of a fitted grid search
BestValues(y, weighted) == [tag |-> "best_values", fit_y |-> y,
                            weighted |-> weighted]

\* setBestParameters(datasets), lines 167-191; self.cv is assigned when it
\* returns (line 81)
setBestParameters ==
    /\ pc = "setBestParameters"
    /\ LET supervision == getSupervision(datasets.train_instances, FALSE, TRUE)
           n == numInstances(datasets.train_instances)
       IN
       IF conf.param_grid = None
       THEN /\ cv' = StratifiedKFold(conf.num_folds)
            /\ Goto("fit", <<Ev("setBestParameters", n)>>)
            /\ UNCHANGED <<conf, pipeline>>
       ELSE IF supervision.exc # NoException
       THEN /\ Propagate(supervision.exc, <<>>)
            /\ UNCHANGED <<conf, pipeline, cv>>
       ELSE IF Truthy(datasets.sample_weight)
       THEN \* line 184-185: supervision ** {...} is evaluated as an argument
            /\ Propagate("TypeError", <<>>)
            /\ UNCHANGED <<conf, pipeline, cv>>
       ELSE /\ conf' = [conf EXCEPT !.best_values =
                            BestValues(supervision.value, FALSE)]
            /\ pipeline' = [pipeline EXCEPT !.params = "best"]
            /\ cv' = StratifiedKFold(conf.num_folds)
            /\ Goto("fit", <<Ev("grid_search.fit", n), Ev("setBestValues", n),
                             Ev("set_params", n), Ev("setBestParameters", n)>>)
    /\ UNCHANGED <<datasets, top, trainingVars, testingVars, validationVars,
                   alerts, cvVars, dumped, probeVars>>

\* training, lines 83-91: the fit on the full training set
training_fit ==
    /\ pc = "fit"
    /\ LET supervision == getSupervision(datasets.train_instances, FALSE, TRUE)
       IN
       IF supervision.exc # NoException
       THEN /\ Propagate(supervision.exc, <<>>)
            /\ UNCHANGED pipeline
       ELSE /\ pipeline' = pipeline_fit(pipeline, datasets.train_instances,
                                        supervision.value,
                                        Truthy(datasets.sample_weight))
            /\ Goto("training_predictions",
                    <<Ev("pipeline.fit", Len(supervision.value))>>)
    /\ UNCHANGED <<conf, datasets, cv, top, trainingVars, testingVars,
                   validationVars, alerts, cvVars, dumped, probeVars>>

\* training, lines 93-97
training_applyPipeline ==
    /\ pc = "training_predictions"
    /\ \E ext \in StepOutcomes(pipeline) :
        LET r == applyPipeline(datasets.train_instances, ext)
            supervision == getSupervision(datasets.train_instances, FALSE, TRUE)
            n == numInstances(datasets.train_instances)
        IN
        IF r.exc # NoException
        THEN /\ Propagate(r.exc, CallEvents(r.calls, n))
             /\ UNCHANGED training_predictions
        ELSE IF supervision.exc # NoException
        THEN /\ Propagate(supervision.exc, CallEvents(r.calls, n))
             /\ training_predictions' = r.value
        ELSE /\ training_predictions' = setGroundTruth(r.value, supervision.value)
             /\ Goto("training_monitoring",
                     CallEvents(r.calls, n) \o <<Ev("applyPipeline(train)", n)>>)
    /\ UNCHANGED <<conf, datasets, pipeline, cv, top, coefs, class_labels,
                   training_monitoring, testingVars, validationVars, alerts,
                   cvVars, dumped, probeVars>>

\* setCoefficients(datasets), lines 107-113
setCoefficients ==
    IF conf.feature_importance = "score"
    THEN List(pipeline_feature_importances_(pipeline))
    ELSE IF conf.feature_importance = "weight"
    THEN List(pipeline_coef_0(pipeline))
    ELSE List(Repeat(0, Len(getFeaturesNames(datasets))))

Fold(id, predictions, c) == [fold_id |-> id, predictions |-> predictions,
                             coefs |-> c]

\* training, lines 98-105
training_addFold ==
    /\ pc = "training_monitoring"
    /\ coefs' = setCoefficients
    /\ class_labels' = IF conf.families_supervision
                       THEN List(classes_(pipeline)) ELSE class_labels
    /\ training_monitoring' =
           [tag |-> "TrainingMonitoring",
            folds |-> <<Fold(0, training_predictions, coefs')>>]
    /\ Goto(AfterTraining, <<Ev("training_monitoring.addFold", 0)>>)
    /\ UNCHANGED <<conf, datasets, pipeline, cv, top, training_predictions,
                   testingVars, validationVars, alerts, cvVars, dumped,
                   probeVars>>

(* ----------------------- testing, alerts, validation ------------------- *)
TestingMonitoring(monitoring_type, predictions) ==
    [tag |-> "TestingMonitoring", monitoring_type |-> monitoring_type,
     predictions_monitoring |-> predictions]

\* the ground truth of the test instances fetched with the default check
testing_supervision_checked ==
    getSupervision(datasets.test_instances, TRUE, TRUE)

\* lines 197-200: the ground truth of the test instances, unchecked
testing_supervision == getSupervision(datasets.test_instances, TRUE, FALSE)

\* testing(datasets), lines 193-205
testing_step ==
    /\ pc = "testing"
    /\ \E ext \in StepOutcomes(pipeline) :
        LET r == applyPipeline(datasets.test_instances, ext)
            supervision == testing_supervision
            n == numInstances(datasets.test_instances)
        IN
        IF r.exc # NoException
        THEN /\ Propagate(r.exc, CallEvents(r.calls, n))
             /\ UNCHANGED testingVars
        ELSE IF supervision.exc # NoException
        THEN /\ Propagate(supervision.exc, CallEvents(r.calls, n))
             /\ testing_predictions' = r.value
             /\ UNCHANGED testing_monitoring
        ELSE /\ testing_predictions' = setGroundTruth(r.value, supervision.value)
             /\ testing_monitoring' =
                    TestingMonitoring("test", testing_predictions')
             /\ Goto(AfterTesting,
                     CallEvents(r.calls, n) \o <<Ev("applyPipeline(test)", n),
                         Ev("testing_monitoring.addPredictions", n)>>)
    /\ UNCHANGED <<conf, datasets, pipeline, cv, top, trainingVars,
                   validationVars, alerts, cvVars, dumped, probeVars>>

AlertsMonitoring(predictions, alerts_conf) ==
    [tag |-> "AlertsMonitoring", predictions |-> predictions,
     alerts_conf |-> alerts_conf, groupAlerts_calls |-> 0]
groupAlerts(a) == [a EXCEPT !.groupAlerts_calls = @ + 1]

\* generateAlerts without the reset of line 222
generateAlerts_result_stale ==
    IF conf.families_supervision
    THEN [exc |-> NoException, alerts |-> alerts]
    ELSE IF conf.test_conf.alerts_conf = None
    THEN [exc |-> NoException, alerts |-> alerts]
    ELSE IF testing_monitoring = Unset
    THEN [exc |-> "AttributeError", alerts |-> alerts]
    ELSE [exc |-> NoException,
          alerts |-> groupAlerts(AlertsMonitoring(
                         testing_monitoring.predictions_monitoring,
                         conf.test_conf.alerts_conf))]

\* generateAlerts(datasets), lines 221-230: the exception raised, if any,
\* and the value self.alerts has when the call ends; reading
\* self.testing_monitoring before any testing raises AttributeError
generateAlerts_result ==
    IF conf.families_supervision
    THEN [exc |-> NoException, alerts |-> None]
    ELSE IF conf.test_conf.alerts_conf = None
    THEN [exc |-> NoException, alerts |-> None]
    ELSE IF testing_monitoring = Unset
    THEN [exc |-> "AttributeError", alerts |-> None]
    ELSE [exc |-> NoException,
          alerts |-> groupAlerts(AlertsMonitoring(
                         testing_monitoring.predictions_monitoring,
                         conf.test_conf.alerts_conf))]

generateAlerts_step ==
    /\ pc = "generateAlerts"
    /\ LET r == generateAlerts_result IN
       /\ alerts' = r.alerts
       /\ IF r.exc # NoException
          THEN Propagate(r.exc, <<>>)
          ELSE Goto(AfterGenerateAlerts, <<Ev("generateAlerts", 0)>>)
    /\ UNCHANGED <<conf, datasets, pipeline, cv, top, trainingVars,
                   testingVars, validationVars, cvVars, dumped, probeVars>>

\* lines 211-214: the ground truth of the validation instances, unchecked
validation_supervision ==
    getSupervision(datasets.validation_instances, TRUE, FALSE)

\* validation(datasets), lines 207-219; with validation_instances None the
\* call of numInstances raises AttributeError
validation_step ==
    /\ pc = "validation"
    /\ IF datasets.validation_instances = None
       THEN /\ Propagate("AttributeError", <<>>)
            /\ UNCHANGED validationVars
       ELSE \E ext \in StepOutcomes(pipeline) :
        LET r == applyPipeline(datasets.validation_instances, ext)
            supervision == validation_supervision
            n == numInstances(datasets.validation_instances)
        IN
        IF r.exc # NoException
        THEN /\ Propagate(r.exc, CallEvents(r.calls, n))
             /\ UNCHANGED validationVars
        ELSE IF supervision.exc # NoException
        THEN /\ Propagate(supervision.exc, CallEvents(r.calls, n))
             /\ validation_predictions' = r.value
             /\ UNCHANGED validation_monitoring
        ELSE /\ validation_predictions' =
                    setGroundTruth(r.value, supervision.value)
             /\ validation_monitoring' =
                    TestingMonitoring("validation", validation_predictions')
             /\ Goto("idle",
                     CallEvents(r.calls, n) \o
                         <<Ev("applyPipeline(validation)", n),
                           Ev("validation_monitoring.addPredictions", n)>>)
    /\ UNCHANGED <<conf, datasets, pipeline, cv, top, trainingVars,
                   testingVars, alerts, cvVars, dumped, probeVars>>

\* dumpModel(model_filename), lines 75-76: the file receives self.pipeline
dumpModel ==
    /\ pc = "idle"
    /\ top' = "dumpModel"
    /\ dumped' = pipeline
    /\ exc' = NoException
    /\ log' = <<>>
    /\ UNCHANGED <<conf, datasets, pipeline, cv, pc, trainingVars,
                   testingVars, validationVars, alerts, cvVars, probeVars>>

\* self.conf is the caller's configuration object (line 45): between calls
\* the caller may set or clear its alerts configuration
Reconfigure ==
    /\ pc = "idle"
    /\ conf' = [conf EXCEPT !.test_conf.alerts_conf =
                    IF @ = None THEN AlertsConfiguration ELSE None]
    /\ top' = "none"
    /\ exc' = NoException
    /\ log' = <<>>
    /\ UNCHANGED <<datasets, pipeline, cv, pc, trainingVars,
                   testingVars, validationVars, alerts, cvVars, dumped,
                   probeVars>>

(* ---------------------- crossValidationMonitoring ---------------------- *)
RECURSIVE Pick(_, _, _)
\* the entries of s at the positions in keep, from position i on, in order
Pick(s, keep, i) ==
    IF i > Len(s) THEN <<>>
    ELSE (IF i \in keep THEN <<s[i]>> ELSE <<>>) \o Pick(s, keep, i + 1)

SubInstances(instances, keep) ==
    [tag |-> "Instances", ids |-> Pick(instances.ids, keep, 1),
     annotations |->
         [labels |-> Pick(instances.annotations.labels, keep, 1),
          families |-> Pick(instances.annotations.families, keep, 1)],
     ground_truth |->
         [labels |-> Pick(instances.ground_truth.labels, keep, 1),
          families |-> Pick(instances.ground_truth.families, keep, 1)]]

\* stratified split: the members of each class are dealt to the folds in turn
FoldOf(y, i, n_splits) ==
    Cardinality({j \in 1..(i - 1) : y[j] = y[i]}) % n_splits
TestPart(y, f, n_splits) == {i \in DOMAIN y : FoldOf(y, i, n_splits) = f}

\* StratifiedKFold refuses a split when no class has n_splits members
CannotSplit(y, n_splits) == \A c \in Range(y) : Count(y, c) < n_splits

\* CvClassifierDatasets.generateDatasets(train_instances, None): one
\* datasets object per fold, its test part the fold and its training part
\* the rest
generateDatasets(instances, families_supervision, sample_weight, n_splits) ==
    LET y == Annotations_getSupervision(instances.annotations,
                                        families_supervision)
    IN  [f \in 1..n_splits |->
            Datasets(SubInstances(instances,
                                  DOMAIN y \ TestPart(y, f - 1, n_splits)),
                     SubInstances(instances, TestPart(y, f - 1, n_splits)),
                     None,
                     IF sample_weight THEN Weights ELSE None)]

CvMonitoring(num_folds) ==
    [tag |-> "CvMonitoring", num_folds |-> num_folds, folds |-> <<>>]
CvMonitoring_addFold(m, id, predictions, c) ==
    [m EXCEPT !.folds = Append(@, Fold(id, predictions, c))]

\* crossValidationMonitoring, lines 116-126; self.cv is read at line 122
cv_generateDatasets ==
    /\ pc = "cv_generate"
    /\ IF cv = Unset
       THEN /\ Propagate("AttributeError", <<>>)
            /\ UNCHANGED cvVars
       ELSE IF CannotSplit(Annotations_getSupervision(
                    datasets.train_instances.annotations,
                    conf.families_supervision), cv.n_splits)
       THEN /\ Propagate("ValueError", <<>>)
            /\ UNCHANGED cvVars
       ELSE /\ cv_datasets' = generateDatasets(datasets.train_instances,
                                               conf.families_supervision,
                                               conf.sample_weight, cv.n_splits)
            /\ cv_monitoring' = CvMonitoring(conf.num_folds)
            /\ fold_id' = 0
            /\ Goto("cv_fold", <<>>)
    /\ UNCHANGED <<conf, datasets, pipeline, cv, top, trainingVars,
                   testingVars, validationVars, alerts, dumped, probeVars>>

\* the loop of line 127 and the fit of lines 128-136 on the fold's training
\* part; the loop ends after the last fold
cv_fit ==
    /\ pc = "cv_fold"
    /\ IF fold_id >= Len(cv_datasets)
       THEN /\ Goto("idle", <<>>)
            /\ UNCHANGED pipeline
       ELSE LET d == cv_datasets[fold_id + 1]
                supervision == getSupervision(d.train_instances, FALSE, TRUE)
            IN
            IF supervision.exc # NoException
            THEN /\ Propagate(supervision.exc, <<>>)
                 /\ UNCHANGED pipeline
            ELSE /\ pipeline' = pipeline_fit(pipeline, d.train_instances,
                                             supervision.value,
                                             Truthy(d.sample_weight))
                 /\ Goto("cv_predict", <<Ev("pipeline.fit", fold_id)>>)
    /\ UNCHANGED <<conf, datasets, cv, top, trainingVars, testingVars,
                   validationVars, alerts, cvVars, dumped, probeVars>>

\* lines 141-144
cv_coefs(d) ==
    IF pipeline.kind = "linear"
    THEN List(pipeline_coef_0(pipeline))
    ELSE List(Repeat(0, Len(getFeaturesNames(d))))

\* lines 137-145 for the current fold
cv_addFold ==
    /\ pc = "cv_predict"
    /\ \E ext \in StepOutcomes(pipeline) :
        LET d == cv_datasets[fold_id + 1]
            r == applyPipeline(d.test_instances, ext)
            supervision == getSupervision(d.test_instances, FALSE, TRUE)
        IN
        IF r.exc # NoException
        THEN /\ Propagate(r.exc, CallEvents(r.calls, fold_id))
             /\ UNCHANGED <<cv_monitoring, fold_id>>
        ELSE IF supervision.exc # NoException
        THEN /\ Propagate(supervision.exc, CallEvents(r.calls, fold_id))
             /\ UNCHANGED <<cv_monitoring, fold_id>>
        ELSE /\ cv_monitoring' =
                    CvMonitoring_addFold(cv_monitoring, fold_id,
                        setGroundTruth(r.value, supervision.value), cv_coefs(d))
             /\ fold_id' = fold_id + 1
             /\ Goto("cv_fold", CallEvents(r.calls, fold_id) \o
                                    <<Ev("cv_monitoring.addFold", fold_id)>>)
    /\ UNCHANGED <<conf, datasets, pipeline, cv, top, trainingVars,
                   testingVars, validationVars, alerts, cv_datasets, dumped,
                   probeVars>>

(* ------------------------ the functions on their own ------------------- *)
\* getSupervision applied to the drawn instances
Probe_getSupervision ==
    /\ probe_in.op = "getSupervision"
    /\ probe_out = Unset
    /\ probe_out' = getSupervision(probe_in.instances, probe_in.ground_truth,
                                   probe_in.check)
    /\ UNCHANGED <<conf, datasets, pipeline, cv, top, pc, exc, log,
                   trainingVars, testingVars, validationVars, alerts, cvVars,
                   dumped, probe_in>>

\* applyPipeline applied to the drawn instances
Probe_applyPipeline ==
    /\ probe_in.op = "applyPipeline"
    /\ probe_out = Unset
    /\ probe_out' = applyPipeline(probe_in.instances, probe_in.ext)
    /\ UNCHANGED <<conf, datasets, pipeline, cv, top, pc, exc, log,
                   trainingVars, testingVars, validationVars, alerts, cvVars,
                   dumped, probe_in>>

(* ---------------------------- specifications --------------------------- *)
FeatureImportances == {"score", "weight", "none"}
Optional(x) == {None, x}

\* Train / test / validation orchestration on one datasets object.
Init ==
    /\ \E nt \in 0..MaxTrain, ns \in 0..MaxTest,
          validation_instances \in
              {None} \cup {MkInstances(201, Alternating(n)) : n \in 0..MaxVal},
          sample_weight \in Optional(Weights),
          families_supervision \in BOOLEAN,
          param_grid \in Optional(ParamGrid),
          alerts_conf \in Optional(AlertsConfiguration),
          feature_importance \in {"weight", "none"} :
        /\ datasets = Datasets(MkInstances(1, Alternating(nt)),
                               MkInstances(101, Alternating(ns)),
                               validation_instances, sample_weight)
        /\ InitClassifier(Conf(families_supervision, param_grid, alerts_conf,
                               2, Truthy(sample_weight), feature_importance))
    /\ NoProbe

Next ==
    \/ trainTestValidation
    \/ training
    \/ testValidation
    \/ testing
    \/ validation
    \/ generateAlerts
    \/ setBestParameters
    \/ training_fit
    \/ training_applyPipeline
    \/ training_addFold
    \/ testing_step
    \/ generateAlerts_step
    \/ validation_step
    \/ Reconfigure

Spec == Init /\ [][Next]_vars

\* Training, cross-validation monitoring, then use of the model.
InitCV ==
    /\ \E n0 \in 0..MaxCvPerClass, n1 \in 0..MaxCvPerClass,
          num_folds \in 2..MaxFolds,
          sample_weight \in Optional(Weights),
          feature_importance \in FeatureImportances :
        /\ datasets = Datasets(MkInstances(1, ByClass(n0, n1)),
                               MkInstances(101, Alternating(1)),
                               None, sample_weight)
        /\ InitClassifier(Conf(FALSE, None, None, num_folds,
                               Truthy(sample_weight), feature_importance))
    /\ NoProbe

NextCV ==
    \/ training
    \/ crossValidationMonitoring
    \/ testing
    \/ dumpModel
    \/ setBestParameters
    \/ training_fit
    \/ training_applyPipeline
    \/ training_addFold
    \/ cv_generateDatasets
    \/ cv_fit
    \/ cv_addFold
    \/ testing_step

SpecCV == InitCV /\ [][NextCV]_vars

\* getSupervision and applyPipeline on drawn arguments, with a fitted
\* pipeline.
LabelledInstances ==
    UNION {{Instances(Ids(1, n), labels, families) :
                labels \in [1..n -> 0..1], families \in [1..n -> 0..MaxClassId]} :
           n \in 0..MaxProbeLen}

\* loadModel(model_filename), lines 72-73: a pipeline fitted earlier
loadModel(p, instances, y) == pipeline_fit(p, instances, y, FALSE)

InitFn ==
    /\ \E families_supervision \in BOOLEAN :
        /\ InitClassifier(Conf(families_supervision, None, None, 2, FALSE,
                               "weight"))
    /\ datasets = Datasets(MkInstances(1, <<0, 1, 1>>), MkInstances(101, <<>>),
                           None, None)
    /\ probe_out = Unset
    /\ \E instances \in LabelledInstances :
        \/ \E ground_truth \in BOOLEAN, check \in BOOLEAN :
              probe_in = [op |-> "getSupervision", instances |-> instances,
                          ground_truth |-> ground_truth, check |-> check]
        \/ \E ext \in ExtOutcomes :
              probe_in = [op |-> "applyPipeline", instances |-> instances,
                          ext |-> ext]

\* the model is loaded before the functions are applied
Probe_loadModel ==
    /\ probe_out = Unset
    /\ ~pipeline.fitted
    /\ pipeline' = loadModel(pipeline, datasets.train_instances,
                             datasets.train_instances.annotations.labels)
    /\ UNCHANGED <<conf, datasets, cv, top, pc, exc, log, trainingVars,
                   testingVars, validationVars, alerts, cvVars, dumped,
                   probeVars>>

NextFn ==
    \/ Probe_loadModel
    \/ Probe_getSupervision
    \/ Probe_applyPipeline

SpecFn == InitFn /\ [][NextFn]_vars

(* ------------------------------ properties ----------------------------- *)
AllEqual(y) == \A i, j \in DOMAIN y : y[i] = y[j]
TrainSupervision ==
    Annotations_getSupervision(datasets.train_instances.annotations,
                               conf.families_supervision)
FewerThanTwoClasses == AllEqual(TrainSupervision)

LogNames == [i \in DOMAIN log |-> log[i].ev]
StepNames == {"setBestParameters", "pipeline.fit", "applyPipeline(train)",
              "training_monitoring.addFold", "applyPipeline(test)",
              "testing_monitoring.addPredictions", "generateAlerts",
              "applyPipeline(validation)",
              "validation_monitoring.addPredictions"}
IsStep(e) == e \in StepNames
\* the steps the running (or last) call has completed, in order
Steps == SelectSeq(LogNames, IsStep)
IsPrefix(a, b) == Len(a) <= Len(b) /\ SubSeq(b, 1, Len(a)) = a
Position(name) == CHOOSE i \in DOMAIN log : log[i].ev = name
Logged(name) == \E i \in DOMAIN log : log[i].ev = name

TrainingSteps == <<"setBestParameters", "pipeline.fit", "applyPipeline(train)",
                   "training_monitoring.addFold">>
TestingSteps == <<"applyPipeline(test)", "testing_monitoring.addPredictions",
                  "generateAlerts">>
ValidationSteps == <<"applyPipeline(validation)",
                     "validation_monitoring.addPredictions">>
\* the steps of one trainTestValidation(datasets), in the order of the claim
ExpectedSteps ==
    TrainingSteps \o TestingSteps \o
        (IF datasets.validation_instances # None THEN ValidationSteps
         ELSE <<>>)
\* the steps completed when the call is at position p
StepsBefore(p) ==
    CASE p = "setBestParameters" -> 0
      [] p = "fit" -> 1
      [] p = "training_predictions" -> 2
      [] p = "training_monitoring" -> 3
      [] p = "testing" -> 4
      [] p = "generateAlerts" -> 6
      [] p = "validation" -> 7
      [] OTHER -> Len(Steps)

\* C1 as stated: every trainTestValidation call performs all the steps in the
\* fixed order, validation among them exactly if validation_instances is not
\* None (calls ended by an error of the external library or by the TypeError
\* of C3 are left aside).
C1_Claim ==
    (/\ top = "trainTestValidation"
     /\ pc = "idle"
     /\ exc \in {NoException, SupervisedLearningAtLeastTwoClasses})
        => Steps = ExpectedSteps

\* C1 as amended: in every trainTestValidation call the steps performed are
\* a prefix of the fixed order (hyperparameter selection, fit, applyPipeline
\* on the training instances, training addFold, testing, generateAlerts,
\* validation), each step starts only when all the earlier ones have
\* finished, a call that returns without raising has performed them all, and
\* validation starts exactly if generateAlerts has finished and
\* validation_instances is not None.
C1_OrderedSteps ==
    top = "trainTestValidation" =>
        /\ IsPrefix(Steps, ExpectedSteps)
        /\ Len(Steps) = StepsBefore(pc)
        /\ (pc = "idle" /\ exc = NoException) => Steps = ExpectedSteps
        /\ pc = "validation" => datasets.validation_instances # None
        /\ (/\ pc = "idle"
            /\ Logged("generateAlerts")
            /\ datasets.validation_instances # None)
               => (exc = NoException \/ exc = ExternalError)
        /\ (pc = "idle" /\ Len(Steps) < 7) => exc # NoException

C1_Witness ==
    /\ top = "trainTestValidation"
    /\ pc = "idle"
    /\ exc = NoException
    /\ datasets.validation_instances # None
    /\ Steps = ExpectedSteps

\* C3 as stated: with a parameter grid and a training set of two classes,
\* training completes without error, with or without sample weights, the
\* grid search fitted first, then setBestValues, then set_params, then the
\* final pipeline.fit (calls ended by an error of the external library are
\* left aside).
C3_Claim ==
    (/\ top = "training"
     /\ pc = "idle"
     /\ conf.param_grid # None
     /\ ~FewerThanTwoClasses
     /\ exc # ExternalError)
        => /\ exc = NoException
           /\ Logged("grid_search.fit") /\ Logged("setBestValues")
           /\ Logged("set_params") /\ Logged("pipeline.fit")
           /\ Position("grid_search.fit") < Position("setBestValues")
           /\ Position("setBestValues") < Position("set_params")
           /\ Position("set_params") < Position("pipeline.fit")
           /\ conf.best_values # None
           /\ pipeline.params = "best"

\* C4: once generateAlerts has run, self.alerts is None if
\* families_supervision is set or the alerts configuration is None, whatever
\* it was before; otherwise it is an AlertsMonitoring built from the current
\* testing monitoring's predictions and the alerts configuration, with
\* groupAlerts called exactly once (without a testing monitoring the call
\* raises and leaves self.alerts None).
C4_AlertsAfterGenerateAlerts ==
    LET returned == log # <<>> /\ log[Len(log)].ev = "generateAlerts"
        raised == top = "generateAlerts" /\ pc = "idle" /\ exc # NoException
        off == \/ conf.families_supervision
               \/ conf.test_conf.alerts_conf = None
    IN  /\ ((returned \/ raised) /\ off) => alerts = None
        /\ raised => (alerts = None /\ testing_monitoring = Unset /\ ~off)
        /\ (returned /\ ~off) =>
               /\ alerts.tag = "AlertsMonitoring"
               /\ alerts.predictions =
                      testing_monitoring.predictions_monitoring
               /\ alerts.alerts_conf = conf.test_conf.alerts_conf
               /\ alerts.groupAlerts_calls = 1

C4_Witness ==
    /\ log # <<>> /\ log[Len(log)].ev = "generateAlerts"
    /\ top = "testValidation"
    /\ alerts # None /\ alerts # Unset
    /\ alerts.groupAlerts_calls = 1
    /\ numInstances(datasets.test_instances) > 0

\* C5: with fewer than two classes in the training instances, training
\* raises SupervisedLearningAtLeastTwoClasses before the pipeline or the grid
\* search is fitted, produces no training_predictions, coefs or
\* training_monitoring, and trainTestValidation goes on to no testing, alert
\* generation or validation.
C5_OneClassTrainingRaises ==
    FewerThanTwoClasses =>
        /\ ~Logged("pipeline.fit") /\ ~Logged("grid_search.fit")
        /\ ~pipeline.fitted
        /\ pipeline.params = "default"
        /\ training_predictions = Unset
        /\ coefs = Unset
        /\ training_monitoring = Unset
        /\ (top \in {"training", "trainTestValidation"} /\ pc = "idle")
               => exc = SupervisedLearningAtLeastTwoClasses
        /\ top \in {"training", "trainTestValidation"} =>
               /\ pc \in {"setBestParameters", "fit", "idle"}
               /\ \A i \in DOMAIN log : log[i].ev = "setBestParameters"

C5_Witness ==
    /\ FewerThanTwoClasses
    /\ numInstances(datasets.train_instances) = 1
    /\ top = "trainTestValidation"
    /\ pc = "idle"
    /\ exc = SupervisedLearningAtLeastTwoClasses
    /\ conf.param_grid # None
    /\ Truthy(datasets.sample_weight)

\* C9: testing and validation never raise
\* SupervisedLearningAtLeastTwoClasses, whatever the classes of the test or
\* validation set: the exception only ever comes out of the training part of
\* a call, and a testing or validation call ends normally unless the
\* external library raises.
C9_NoGuardOnTestData ==
    /\ top \in {"testing", "validation", "testValidation", "generateAlerts"}
           => exc # SupervisedLearningAtLeastTwoClasses
    /\ exc = SupervisedLearningAtLeastTwoClasses =>
           /\ top \in {"training", "trainTestValidation"}
           /\ \A i \in DOMAIN log : log[i].ev = "setBestParameters"
    /\ (top = "testing" /\ pc = "idle")
           => exc \in {NoException, ExternalError}
    /\ (/\ top = "validation" /\ pc = "idle"
        /\ datasets.validation_instances # None)
           => exc \in {NoException, ExternalError}

C9_Witness ==
    /\ top = "testValidation"
    /\ pc = "idle"
    /\ exc = NoException
    /\ numInstances(datasets.test_instances) = 1
    /\ datasets.validation_instances # None
    /\ numInstances(datasets.validation_instances) = 0
    /\ Logged("validation_monitoring.addPredictions")

FoldIds == [i \in DOMAIN cv_monitoring.folds |-> cv_monitoring.folds[i].fold_id]
\* every fold's training part has two classes
FoldsTrainable ==
    \A f \in DOMAIN cv_datasets :
        ~AllEqual(Annotations_getSupervision(
                      cv_datasets[f].train_instances.annotations,
                      conf.families_supervision))

\* C8 as stated: crossValidationMonitoring, called after training, adds
\* exactly one fold record per fold dataset, with ids 0, 1, ...,
\* num_folds-1 in increasing order, each fold's fit coming before its
\* predictions, and the coefficients coef_[0] or a zero vector with one entry
\* per feature (calls ended by an error of the external library, and
\* training sets whose folds cannot be trained on, are left aside).
C8_Claim ==
    (/\ top = "crossValidationMonitoring"
     /\ pc = "idle"
     /\ training_monitoring # Unset
     /\ exc \notin {ExternalError, "ValueError", "AttributeError"}
     /\ FoldsTrainable)
        => /\ exc = NoException
           /\ cv_monitoring.tag = "CvMonitoring"
           /\ Len(cv_monitoring.folds) = Len(cv_datasets)
           /\ FoldIds = [i \in 1..conf.num_folds |-> i - 1]
           /\ \A i \in DOMAIN cv_monitoring.folds :
                  /\ Len(cv_monitoring.folds[i].coefs.v) = NumFeatures
                  /\ pipeline.kind # "linear" =>
                         \A k \in 1..NumFeatures :
                             cv_monitoring.folds[i].coefs.v[k] = 0

\* C10 as stated: after training and a completed crossValidationMonitoring,
\* the pipeline that testing and dumpModel use is the one training fitted on
\* the full training set.
C10_Claim ==
    (/\ top \in {"testing", "dumpModel"}
     /\ training_monitoring # Unset
     /\ cv_monitoring.tag = "CvMonitoring"
     /\ Len(cv_monitoring.folds) = conf.num_folds
     /\ pipeline.fitted)
        => /\ pipeline.fit_ids = datasets.train_instances.ids
           /\ top = "dumpModel" =>
                  dumped.fit_ids = datasets.train_instances.ids

\* the supervision vector getSupervision is asked for
ProbedSupervision ==
    LET a == IF probe_in.ground_truth THEN probe_in.instances.ground_truth
             ELSE probe_in.instances.annotations
    IN  IF conf.families_supervision THEN a.families ELSE a.labels

\* C2: getSupervision raises SupervisedLearningAtLeastTwoClasses exactly when
\* check is true and the supervision vector holds fewer than two distinct
\* values (the empty vector included); otherwise it returns the supervision
\* vector unchanged.
C2_GuardIffCheckAndOneClass ==
    (probe_in.op = "getSupervision" /\ probe_out # Unset) =>
        /\ probe_out.exc \in {NoException, SupervisedLearningAtLeastTwoClasses}
        /\ probe_out.exc = SupervisedLearningAtLeastTwoClasses
               <=> (probe_in.check /\ AllEqual(ProbedSupervision))
        /\ probe_out.exc = NoException => probe_out.value = ProbedSupervision

C2_Witness ==
    /\ probe_in.op = "getSupervision"
    /\ probe_out # Unset
    /\ probe_in.check
    /\ conf.families_supervision
    /\ Len(ProbedSupervision) = 2
    /\ AllEqual(ProbedSupervision)
    /\ ~AllEqual(probe_in.instances.annotations.labels)
    /\ probe_out.exc = SupervisedLearningAtLeastTwoClasses

\* C6: applyPipeline returns predictions, predicted_proba and
\* predicted_scores of exactly numInstances() entries each, with the
\* instances' ids, for every instance count, in both supervision modes and
\* whether or not decision_function works; with 0 instances everything is
\* empty and the pipeline is not called; predicted_proba is None throughout
\* in families-supervision mode and the second column of predict_proba
\* otherwise.
C6_PredictionsOnePerInstance ==
    (probe_in.op = "applyPipeline" /\ probe_out # Unset) =>
        LET n == Len(probe_in.instances.ids)
            r == probe_out
        IN  /\ n = 0 => (r.exc = NoException /\ r.calls = <<>>)
            /\ (pipeline.fitted
                  /\ probe_in.ext \in {"ok", "decision_function_raises"})
                   => r.exc = NoException
            /\ r.exc = NoException =>
                   /\ Len(r.value.predictions) = n
                   /\ Len(r.value.predicted_proba) = n
                   /\ Len(r.value.predicted_scores) = n
                   /\ r.value.ids = probe_in.instances.ids
                   /\ n > 0 => r.calls = <<"predict", "predict_proba",
                                            "decision_function">>
                   /\ \A i \in 1..n :
                          IF conf.families_supervision
                          THEN r.value.predicted_proba[i] = None
                          ELSE r.value.predicted_proba[i] =
                                   r.value.all_predicted_proba[i][2]

C6_Witness ==
    /\ probe_in.op = "applyPipeline"
    /\ probe_out # Unset
    /\ probe_out.exc = NoException
    /\ Len(probe_in.instances.ids) = 2
    /\ ~conf.families_supervision
    /\ probe_in.ext = "decision_function_raises"
    /\ probe_out.value.predicted_proba = <<2, 2>>

\* C7: in applyPipeline a failure of decision_function is swallowed and the
\* scores are then 0 for every instance; a failure of predict or
\* predict_proba propagates and no Predictions object is returned.
C7_OnlyDecisionFunctionSwallowed ==
    (/\ probe_in.op = "applyPipeline"
     /\ probe_out # Unset
     /\ pipeline.fitted
     /\ Len(probe_in.instances.ids) > 0) =>
        LET n == Len(probe_in.instances.ids)
            r == probe_out
        IN  /\ probe_in.ext = "decision_function_raises" =>
                   /\ r.exc = NoException
                   /\ r.value.predicted_scores = [i \in 1..n |-> 0]
            /\ probe_in.ext \in {"predict_raises", "predict_proba_raises"} =>
                   /\ r.exc = ExternalError
                   /\ r.value = None
            /\ probe_in.ext = "predict_raises" => r.calls = <<"predict">>

C7_Witness ==
    /\ probe_in.op = "applyPipeline"
    /\ probe_out # Unset
    /\ pipeline.fitted
    /\ Len(probe_in.instances.ids) = 2
    /\ probe_in.ext = "decision_function_raises"
    /\ probe_out.exc = NoException
    /\ probe_out.value.predicted_scores = <<0, 0>>

====
